---------------------------- MODULE Spec2Model ----------------------------
(***************************************************************************)
(* A model of the Streamlit weather page (Home.py) and of its OpenWeather  *)
(* client (weather_client.py).                                             *)
(*                                                                         *)
(* One rerun of the script is a "query".  The provider's answers, the      *)
(* widgets' values and the passing of time are the inputs.  The two        *)
(* st.cache_data caches live across reruns.                                *)
(*                                                                         *)
(* Python values: text that is stripped or upper-cased is a sequence of    *)
(* one-character strings, other text is a string, a dict is a record, a    *)
(* missing dict key is a missing record field.                             *)
(***************************************************************************)
EXTENDS Integers, Sequences, FiniteSets, TLC

VARIABLES
    secrets,      \* st.secrets["OPENWEATHER_API_KEY"], or NoKey
    environ,      \* os.environ["OPENWEATHER_API_KEY"], or NoKey
    lang,         \* the language of the session, "kr" or "en" (Home.py:102)
    now,          \* the clock the caches read, in seconds
    ticks,        \* how many times the clock was advanced
    locCache,     \* st.cache_data(ttl=86400) of resolve_loc
    curCache,     \* st.cache_data(ttl=300) of fetch_current_weather
    city,         \* st.text_input, as typed, of the last rerun
    unit_pref,    \* st.selectbox of the unit, of the last rerun
    api_key,      \* _read_api_key()
    loc,          \* Home.py:126
    units,        \* Home.py:132
    floc,         \* loc inside fetch_current_weather (Home.py:67), when it ran
    data,         \* Home.py:137
    shown,        \* what the page shows of the current weather (Home.py:156-178)
    forecast,     \* Home.py:201
    calls,        \* the provider calls of the last rerun, in order
    nclients,     \* the OpenWeatherClient objects built in the last rerun
    outcome,      \* how the last rerun ended
    started,      \* the clock when the last rerun ran
    cc,           \* choose_units_for_country: the argument
    ccUnits,      \* choose_units_for_country: the result
    ctorArg,      \* OpenWeatherClient(api_key=...): the argument
    client,       \* the object it made
    ctorError,    \* whether it raised ValueError
    sent          \* the requests sent through that object

vars == <<secrets, environ, lang, now, ticks, locCache, curCache, city,
          unit_pref, api_key, loc, units, floc, data, shown, forecast, calls,
          nclients, outcome, started, cc, ccUnits, ctorArg, client, ctorError,
          sent>>

confVars == <<secrets, environ, lang>>
runVars == <<city, unit_pref, api_key, loc, units, floc, data, shown, forecast,
             calls, nclients, outcome, started>>
unitVars == <<cc, ccUnits>>
clientVars == <<ctorArg, client, ctorError, sent>>

-----------------------------------------------------------------------------
(* Bounds and constants *)

MaxTicks == 1
MaxCodeLen == 2
MaxSent == 2

TTL_CURRENT == 300
TTL_LOC == 86400
HTTP_OK == 200

TickSteps == {200, 86300}

-----------------------------------------------------------------------------
(* Python values *)

None == [none |-> TRUE]
NoKey == "<None>"
NoCountry == <<"<None>">>
Unset == "<unset>"

Keys == {"", "k1", "k2"}

\* bool(x) of an optional string
TruthyStr(s) == s # NoKey /\ s # ""
\* bool(x) of an optional sequence of characters
TruthySeq(s) == s # NoCountry /\ s # <<>>
\* bool(x) of an optional dict
TruthyDict(d) == d # None /\ DOMAIN d # {}

\* a or b, on optional strings
OrStr(a, b) == IF TruthyStr(a) THEN a ELSE b

Whitespace == {" ", "\t"}

RECURSIVE lstrip(_)
lstrip(s) ==
    IF s # <<>> /\ Head(s) \in Whitespace THEN lstrip(Tail(s)) ELSE s

RECURSIVE rstrip(_)
rstrip(s) ==
    IF s # <<>> /\ s[Len(s)] \in Whitespace
    THEN rstrip(SubSeq(s, 1, Len(s) - 1))
    ELSE s

\* str.strip()
strip(s) == rstrip(lstrip(s))

UpperOf(c) ==
    CASE c = "u" -> "U"
      [] c = "s" -> "S"
      [] c = "l" -> "L"
      [] c = "r" -> "R"
      [] c = "m" -> "M"
      [] c = "k" -> "K"
      [] OTHER -> c

\* str.upper()
upper(s) == [i \in 1..Len(s) |-> UpperOf(s[i])]

-----------------------------------------------------------------------------
(* weather_client.py *)

\* a variant of OpenWeatherClient that rejects None only, not the empty key
OpenWeatherClientNoneOnly(key, env) ==
    LET k == OrStr(key, env)
    IN  IF k = NoKey THEN None ELSE [api_key |-> k]

\* OpenWeatherClient.__init__: the object, or None when it raises ValueError
OpenWeatherClient(key, env) ==
    LET k == OrStr(key, env)
    IN  IF ~TruthyStr(k) THEN None ELSE [api_key |-> k]

\* self.geocode: the request sent
geocode(self, query, lg) ==
    [op |-> "geocode", appid |-> self.api_key, q |-> query, lang |-> lg]

\* self.get_current_weather: the request sent
get_current_weather(self, q, u, lg) ==
    [op |-> "weather_q", appid |-> self.api_key, q |-> q, units |-> u, lang |-> lg]

\* self.get_current_weather_by_coords: the request sent
get_current_weather_by_coords(self, lat, lon, u, lg) ==
    [op |-> "weather", appid |-> self.api_key, lat |-> lat, lon |-> lon,
     units |-> u, lang |-> lg]

\* self.get_forecast_by_coords: the request sent
get_forecast_by_coords(self, lat, lon, u, lg) ==
    [op |-> "forecast", appid |-> self.api_key, lat |-> lat, lon |-> lon,
     units |-> u, lang |-> lg]

\* resolve_city_to_coords, given the body geocode returned
resolve_city_to_coords(results) ==
    IF results = <<>> THEN None ELSE results[1]

ImperialCountries == {<<"U", "S">>, <<"L", "R">>, <<"M", "M">>}

\* a variant of choose_units_for_country that compares without upper()
choose_units_case_sensitive(country_code) ==
    IF ~TruthySeq(country_code) THEN "metric"
    ELSE IF country_code \in ImperialCountries THEN "imperial"
    ELSE "metric"

choose_units_for_country(country_code) ==
    IF ~TruthySeq(country_code) THEN "metric"
    ELSE IF upper(country_code) \in ImperialCountries THEN "imperial"
    ELSE "metric"

-----------------------------------------------------------------------------
(* The provider *)

CandKR ==
    [name |-> "Seoul", local_names |-> [kr |-> "Seoul-kr", en |-> ""],
     country |-> <<"K", "R">>, lat |-> 37, lon |-> 127]
CandUS ==
    [name |-> "Seoul, Texas", local_names |-> [en |-> "Seoul-en"],
     country |-> <<"u", "s">>, lat |-> 32, lon |-> -97]
CandBare ==
    [name |-> "Seoul Station", lat |-> 1, lon |-> 2]

Candidates == {CandKR, CandUS, CandBare}

\* what GET /geo/1.0/direct may answer
GeoResponses ==
    {[status_code |-> HTTP_OK, body |-> <<>>]}
    \cup {[status_code |-> HTTP_OK, body |-> <<c>>] : c \in Candidates}
    \cup {[status_code |-> 401, body |-> <<>>]}

\* the body of GET /data/2.5/weather for a request
WeatherBody(req) ==
    [name |-> "WxStation",
     sys |-> [country |-> <<"W", "X">>],
     coord |-> IF req.op = "weather" THEN [lat |-> req.lat, lon |-> req.lon]
               ELSE [lat |-> 0, lon |-> 0],
     units |-> req.units]

\* the body of GET /data/2.5/forecast for a request
ForecastBody(req) ==
    [city |-> [coord |-> [lat |-> req.lat, lon |-> req.lon]], units |-> req.units]

Statuses == {HTTP_OK, 401}

-----------------------------------------------------------------------------
(* st.cache_data *)

\* cachetools.TTLCache: an entry stored at e.t is served while t < e.t + ttl
CacheValid(e, ttl, t) == t < e.t + ttl

CacheHit(cache, key, ttl, t) ==
    {e \in cache : e.key = key /\ CacheValid(e, ttl, t)}

CachePut(cache, key, value, t) ==
    {e \in cache : e.key # key} \cup {[key |-> key, value |-> value, t |-> t]}

\* a variant of fetch_current_weather_key that leaves the units out
fetch_current_weather_key_no_units(cty, u, lg, key) == <<cty, lg, key>>

\* st.cache_data keys an entry by the function's arguments
resolve_loc_key(cty, lg, key) == <<cty, lg, key>>

fetch_current_weather_key(cty, u, lg, key) == <<cty, u, lg, key>>

\* a variant of Memoize that stores None when the function raises
MemoizeFailures(cache, key, res, t) == CachePut(cache, key, res.value, t)

\* st.cache_data stores what the function returns, and nothing when it raises
Memoize(cache, key, res, t) ==
    IF res.raised THEN cache ELSE CachePut(cache, key, res.value, t)

-----------------------------------------------------------------------------
(* Home.py *)

UnsetRec == [unset |-> TRUE]
EmptyDict == <<>>

\* d.get(k, default)
DictGet(d, k, default) == IF k \in DOMAIN d THEN d[k] ELSE default

UnitOptions == {"auto (by location)", "Celsius (C)", "Fahrenheit (F)"}
Langs == {"kr", "en"}
Cities == {<<>>, <<" ", "\t">>, <<" ", "a", " ">>}

\* _read_api_key
read_api_key ==
    LET k1 == IF TruthyStr(secrets) THEN secrets ELSE environ
    IN  IF TruthyStr(k1) THEN k1 ELSE ""

\* a variant of ShouldQuery that tests city, not city.strip()
ShouldQueryNoStrip(c, key) == c # <<>> /\ TruthyStr(key)

\* Home.py:123, the guard of the query
ShouldQuery(c, key) == strip(c) # <<>> /\ TruthyStr(key)

\* a variant of SelectUnits in which an imperial country beats the choice
SelectUnitsCountryFirst(l, up) ==
    LET auto_units == choose_units_for_country(DictGet(l, "country", NoCountry))
    IN  IF auto_units = "imperial" THEN "imperial"
        ELSE IF up = "Celsius (C)" THEN "metric"
        ELSE IF up = "Fahrenheit (F)" THEN "imperial"
        ELSE auto_units

\* Home.py:131-134
SelectUnits(l, up) ==
    LET auto_units == choose_units_for_country(DictGet(l, "country", NoCountry))
    IN  IF up = "Celsius (C)" THEN "metric"
        ELSE IF up = "Fahrenheit (F)" THEN "imperial"
        ELSE auto_units

\* a variant of DisplayName without the "or loc[name]"
DisplayNameNoFallback(l, lg) ==
    DictGet(DictGet(l, "local_names", EmptyDict), lg, l.name)

\* Home.py:74, the name shown for a geocoded place
DisplayName(l, lg) ==
    LET v == DictGet(DictGet(l, "local_names", EmptyDict), lg, l.name)
    IN  IF v # "" THEN v ELSE l.name

\* Home.py:73-76
Overwrite(body, l, lg) ==
    LET d1 == IF "name" \in DOMAIN l
              THEN [body EXCEPT !.name = DisplayName(l, lg)] ELSE body
    IN  IF "country" \in DOMAIN l
        THEN [d1 EXCEPT !.sys = [@ EXCEPT !.country = l.country]] ELSE d1

\* Home.py:68
HasCoords(l) == TruthyDict(l) /\ "lat" \in DOMAIN l /\ "lon" \in DOMAIN l

Call(site, req, status) == [site |-> site, req |-> req, status_code |-> status]

\* what a function call gives back: whether it raised, its value, the provider
\* calls it made and the clients it built
Returned(v, cs, n) == [raised |-> FALSE, value |-> v, calls |-> cs, nclients |-> n]
Raised(cs, n) == [raised |-> TRUE, value |-> None, calls |-> cs, nclients |-> n]

\* the body of resolve_loc (Home.py:86-87), the provider answering r
resolve_loc_body(cty, lg, key, r) ==
    LET self == OpenWeatherClient(key, environ)
    IN  IF self = None THEN Raised(<<>>, 0)
        ELSE LET c1 == Call("resolve_loc", geocode(self, cty, lg), r.status_code)
             IN  IF r.status_code # HTTP_OK THEN Raised(<<c1>>, 1)
                 ELSE Returned(resolve_city_to_coords(r.body), <<c1>>, 1)

\* resolve_loc under st.cache_data(ttl=86400): the result and the cache after
resolve_loc(cty, lg, key, r, t) ==
    LET k == resolve_loc_key(cty, lg, key)
        hit == CacheHit(locCache, k, TTL_LOC, t)
    IN  IF hit # {}
        THEN [res |-> Returned((CHOOSE e \in hit : TRUE).value, <<>>, 0),
              cache |-> locCache]
        ELSE LET res == resolve_loc_body(cty, lg, key, r)
             IN  [res |-> res, cache |-> Memoize(locCache, k, res, t)]

\* the body of fetch_current_weather (Home.py:66-81), the provider answering
\* r to the geocoding and status to the weather request
fetch_current_weather_body(cty, u, lg, key, r, status) ==
    LET self == OpenWeatherClient(key, environ)
    IN  IF self = None THEN Raised(<<>>, 0) @@ [floc |-> UnsetRec]
        ELSE
        LET c1 == Call("fetch_current_weather", geocode(self, cty, lg), r.status_code)
        IN  IF r.status_code # HTTP_OK THEN Raised(<<c1>>, 1) @@ [floc |-> UnsetRec]
            ELSE
            LET l == resolve_city_to_coords(r.body)
                req == IF HasCoords(l)
                       THEN get_current_weather_by_coords(self, l.lat, l.lon, u, lg)
                       ELSE get_current_weather(OpenWeatherClient(key, environ),
                                                cty, u, lg)
                n == IF HasCoords(l) THEN 1 ELSE 2
                c2 == Call("fetch_current_weather", req, status)
            IN  IF status # HTTP_OK THEN Raised(<<c1, c2>>, n) @@ [floc |-> l]
                ELSE IF HasCoords(l)
                THEN Returned(Overwrite(WeatherBody(req), l, lg), <<c1, c2>>, n)
                     @@ [floc |-> l]
                ELSE Returned(WeatherBody(req), <<c1, c2>>, n) @@ [floc |-> l]

\* fetch_current_weather under st.cache_data(ttl=300)
fetch_current_weather(cty, u, lg, key, r, status, t) ==
    LET k == fetch_current_weather_key(cty, u, lg, key)
        hit == CacheHit(curCache, k, TTL_CURRENT, t)
    IN  IF hit # {}
        THEN [res |-> Returned((CHOOSE e \in hit : TRUE).value, <<>>, 0)
                      @@ [floc |-> UnsetRec],
              cache |-> curCache]
        ELSE LET res == fetch_current_weather_body(cty, u, lg, key, r, status)
             IN  [res |-> res, cache |-> Memoize(curCache, k, res, t)]

\* Home.py:139-178, what is shown of data
Shown(d, c, u) ==
    [name |-> DictGet(d, "name", "as typed"),
     country |-> DictGet(DictGet(d, "sys", EmptyDict), "country", <<>>),
     unit_symbol |-> IF u = "metric" THEN "C" ELSE "F",
     wind_unit |-> IF u = "metric" THEN "m/s" ELSE "mph"]

\* Home.py:200-203, the provider answering status
get_forecast(l, u, lg, key, status) ==
    LET self == OpenWeatherClient(key, environ)
    IN  IF self = None THEN Raised(<<>>, 0)
        ELSE IF "lat" \notin DOMAIN l \/ "lon" \notin DOMAIN l THEN Raised(<<>>, 1)
        ELSE LET req == get_forecast_by_coords(self, l.lat, l.lon, u, lg)
                 c1 == Call("main", req, status)
             IN  IF status # HTTP_OK THEN Raised(<<c1>>, 1)
                 ELSE Returned(ForecastBody(req), <<c1>>, 1)

\* the state of a rerun in which nothing was looked up
Blank(c, up, key) ==
    [city |-> c, unit_pref |-> up, api_key |-> key, loc |-> UnsetRec,
     units |-> Unset, floc |-> UnsetRec, data |-> UnsetRec, shown |-> UnsetRec,
     forecast |-> UnsetRec, calls |-> <<>>, nclients |-> 0, outcome |-> "no_key",
     locCache |-> locCache, curCache |-> curCache]

\* Home.py:108-279: one rerun of the script, with the city c and the unit
\* choice up, the provider answering r1 and r2 to the geocodings, s3 to the
\* weather request and s4 to the forecast request
Script(t, c, up, r1, r2, s3, s4) ==
    LET key == read_api_key
        b == Blank(c, up, key)
    IN  IF ~ShouldQuery(c, key)
        THEN IF strip(c) = <<>> THEN [b EXCEPT !.outcome = "prompt"] ELSE b
        ELSE
        LET R == resolve_loc(strip(c), lang, key, r1, t)
            b1 == [b EXCEPT !.calls = R.res.calls, !.nclients = R.res.nclients,
                            !.locCache = R.cache]
        IN  IF R.res.raised THEN [b1 EXCEPT !.outcome = "error"]
            ELSE IF ~TruthyDict(R.res.value)
            THEN [b1 EXCEPT !.loc = R.res.value, !.outcome = "not_found"]
            ELSE
            LET l == R.res.value
                u == SelectUnits(l, up)
                F == fetch_current_weather(strip(c), u, lang, key, r2, s3, t)
                b2 == [b1 EXCEPT !.loc = l, !.units = u, !.floc = F.res.floc,
                                 !.calls = @ \o F.res.calls,
                                 !.nclients = @ + F.res.nclients,
                                 !.curCache = F.cache]
            IN  IF F.res.raised THEN [b2 EXCEPT !.outcome = "error"]
                ELSE
                LET d == F.res.value
                    G == get_forecast(l, u, lang, key, s4)
                    b3 == [b2 EXCEPT !.data = d, !.shown = Shown(d, c, u),
                                     !.calls = @ \o G.calls,
                                     !.nclients = @ + G.nclients]
                IN  IF G.raised THEN [b3 EXCEPT !.outcome = "error"]
                    ELSE [b3 EXCEPT !.forecast = G.value, !.outcome = "ok"]

\* where the key is configured: nowhere, or in the environment
Configs == {<<NoKey, NoKey>>, <<NoKey, "k2">>}

\* before the first rerun
AppInit ==
    /\ now = 0 /\ ticks = 0
    /\ locCache = {} /\ curCache = {}
    /\ city = <<>> /\ unit_pref = "auto (by location)"
    /\ api_key = ""
    /\ loc = UnsetRec /\ units = Unset /\ floc = UnsetRec /\ data = UnsetRec
    /\ shown = UnsetRec /\ forecast = UnsetRec
    /\ calls = <<>> /\ nclients = 0 /\ outcome = "none" /\ started = 0

UnitsIdle == cc = NoCountry /\ ccUnits = Unset
ClientIdle == ctorArg = NoKey /\ client = None /\ ctorError = FALSE /\ sent = <<>>

Init ==
    /\ \E cf \in Configs : secrets = cf[1] /\ environ = cf[2]
    /\ lang \in Langs
    /\ AppInit /\ UnitsIdle /\ ClientIdle

\* The provider answers the requests that are sent, and no others: the
\* answers a rerun at time t can get, given the answers before them.
NoAnswer == [status_code |-> HTTP_OK, body |-> <<>>]

Answers1(t, c) ==
    IF ShouldQuery(c, read_api_key)
       /\ CacheHit(locCache, resolve_loc_key(strip(c), lang, read_api_key),
                   TTL_LOC, t) = {}
    THEN GeoResponses ELSE {NoAnswer}

Answers2(t, c, up, r1) ==
    IF ~ShouldQuery(c, read_api_key) THEN {NoAnswer}
    ELSE LET R == resolve_loc(strip(c), lang, read_api_key, r1, t).res
         IN  IF R.raised \/ ~TruthyDict(R.value) THEN {NoAnswer}
             ELSE IF CacheHit(curCache,
                        fetch_current_weather_key(strip(c), SelectUnits(R.value, up),
                                                  lang, read_api_key),
                        TTL_CURRENT, t) = {}
             THEN GeoResponses ELSE {NoAnswer}

Answers3(t, c, up, r1, r2) ==
    IF Answers2(t, c, up, r1) = {NoAnswer} \/ r2.status_code # HTTP_OK
    THEN {HTTP_OK} ELSE Statuses

Answers4(t, c, up, r1, r2, s3) ==
    IF Script(t, c, up, r1, r2, s3, HTTP_OK).outcome = "ok"
    THEN Statuses ELSE {HTTP_OK}

\* the entries a cache still serves at time t
Live(cache, ttl, t) == {e \in cache : CacheValid(e, ttl, t)}

\* one rerun of Home.py
Rerun(c, up, r1, r2, s3, s4) ==
    /\ \E S \in {Script(now, c, up, r1, r2, s3, s4)} :
        /\ city' = S.city /\ unit_pref' = S.unit_pref /\ api_key' = S.api_key
        /\ loc' = S.loc /\ units' = S.units /\ floc' = S.floc /\ data' = S.data
        /\ shown' = S.shown /\ forecast' = S.forecast
        /\ calls' = S.calls /\ nclients' = S.nclients /\ outcome' = S.outcome
        /\ locCache' = S.locCache
        /\ curCache' = S.curCache
    /\ started' = now
    /\ UNCHANGED <<confVars, now, ticks, unitVars, clientVars>>

\* d seconds pass between two reruns; the caches drop the entries past their ttl
Tick(d) ==
    /\ ticks < MaxTicks
    /\ now' = now + d
    /\ ticks' = ticks + 1
    /\ locCache' = Live(locCache, TTL_LOC, now + d)
    /\ curCache' = Live(curCache, TTL_CURRENT, now + d)
    /\ UNCHANGED <<confVars, runVars, unitVars, clientVars>>

Next ==
    \/ \E c \in Cities, up \in UnitOptions :
          \E r1 \in Answers1(now, c) :
             \E r2 \in Answers2(now, c, up, r1) :
                \E s3 \in Answers3(now, c, up, r1, r2) :
                   \E s4 \in Answers4(now, c, up, r1, r2, s3) :
                      Rerun(c, up, r1, r2, s3, s4)
    \/ \E d \in TickSteps : Tick(d)

Spec == Init /\ [][Next]_vars

-----------------------------------------------------------------------------
(* choose_units_for_country on its own *)

Letters == {"U", "u", "S", "s", "L", "l", "R", "r", "M", "m", "K", "k"}

CountryCodes ==
    {NoCountry} \cup UNION {[1..n -> Letters] : n \in 0..MaxCodeLen}

InitUnits ==
    /\ secrets = NoKey /\ environ = NoKey /\ lang = "kr"
    /\ AppInit /\ ClientIdle
    /\ cc \in CountryCodes /\ ccUnits = Unset

ChooseUnits ==
    /\ ccUnits = Unset
    /\ ccUnits' = choose_units_for_country(cc)
    /\ UNCHANGED <<confVars, now, ticks, locCache, curCache, runVars, cc, clientVars>>

NextUnits == ChooseUnits

SpecUnits == InitUnits /\ [][NextUnits]_vars

-----------------------------------------------------------------------------
(* OpenWeatherClient on its own *)

OptKeys == Keys \cup {NoKey}

InitClient ==
    /\ secrets = NoKey /\ lang = "kr"
    /\ environ \in OptKeys
    /\ AppInit /\ UnitsIdle
    /\ ctorArg \in OptKeys /\ client = None /\ ctorError = FALSE /\ sent = <<>>

\* OpenWeatherClient(api_key=ctorArg)
Construct ==
    /\ client = None /\ ~ctorError
    /\ client' = OpenWeatherClient(ctorArg, environ)
    /\ ctorError' = (OpenWeatherClient(ctorArg, environ) = None)
    /\ UNCHANGED <<confVars, now, ticks, locCache, curCache, runVars, unitVars,
                   ctorArg, sent>>

\* the requests a caller may send through the client
Requests(self) ==
    {geocode(self, <<"a">>, "kr"),
     get_current_weather(self, <<"a">>, "metric", "kr"),
     get_current_weather_by_coords(self, 37, 127, "metric", "kr"),
     get_forecast_by_coords(self, 37, 127, "metric", "kr")}

\* a method of the client is called: a request goes out
Send ==
    /\ client # None
    /\ Len(sent) < MaxSent
    /\ \E req \in Requests(client) : sent' = Append(sent, req)
    /\ UNCHANGED <<confVars, now, ticks, locCache, curCache, runVars, unitVars,
                   ctorArg, client, ctorError>>

NextClient == Construct \/ Send

SpecClient == InitClient /\ [][NextClient]_vars

-----------------------------------------------------------------------------
(* The claims *)

\* a rerun has happened
Ran == outcome # "none"

\* the text is empty or made of whitespace only
IsBlank(c) == \A i \in 1..Len(c) : c[i] \in Whitespace

\* the two letters are the same up to case
SameLetter(x, y) ==
    \/ x = y
    \/ {x, y} \in {{"U", "u"}, {"S", "s"}, {"L", "l"}, {"R", "r"}, {"M", "m"},
                   {"K", "k"}}

\* the country code is code, in any letter case
IsCode(s, code) ==
    /\ s # NoCountry
    /\ Len(s) = Len(code)
    /\ \A i \in 1..Len(code) : SameLetter(s[i], code[i])

\* the country code is one of US, LR, MM, in any letter case
IsImperialCode(s) ==
    IsCode(s, <<"U", "S">>) \/ IsCode(s, <<"L", "R">>) \/ IsCode(s, <<"M", "M">>)

Ops(cs) == {cs[i].req.op : i \in 1..Len(cs)}

\* C1: when the city is not blank, the key is set and geocoding answers with
\* no candidate (without failing), the rerun falls back to the lookup by name
\* and ends with a snapshot and no forecast request.
C1_FallsBackByName ==
    (Ran /\ ~IsBlank(city) /\ api_key # "" /\ loc = None)
        => /\ "weather_q" \in Ops(calls)
           /\ data # UnsetRec /\ shown # UnsetRec
           /\ "forecast" \notin Ops(calls) /\ forecast = UnsetRec

\* C2: a rerun with the same city, units and language as the rerun before it,
\* less than the ttl of the current-weather cache after it, makes no provider
\* call.
C2_SecondRunMakesNoCall ==
    [][(/\ ticks' = ticks
        /\ Ran /\ units # Unset
        /\ strip(city') = strip(city) /\ units' = units /\ lang' = lang
        /\ now' - started < TTL_CURRENT)
           => calls' = <<>>]_vars

\* C3: a rerun whose city is empty or whitespace makes no provider call,
\* builds no client and ends with the prompt for a city.
C3_BlankCityNoCall ==
    (Ran /\ IsBlank(city))
        => calls = <<>> /\ nclients = 0 /\ outcome = "prompt"

C3_Witness ==
    /\ city = <<" ", "\t">> /\ api_key = "k2"
    /\ outcome = "prompt" /\ calls = <<>> /\ nclients = 0

\* C4: the current weather shown, the forecast request, the unit symbols and
\* every request of the rerun carry the one units value of the rerun, also
\* when the current weather comes from the cache.
C4_OneUnitSystem ==
    /\ \A i \in 1..Len(calls) :
          "units" \in DOMAIN calls[i].req => calls[i].req.units = units
    /\ data # UnsetRec => data.units = units
    /\ forecast # UnsetRec => forecast.units = units
    /\ shown # UnsetRec =>
          /\ units \in {"metric", "imperial"}
          /\ shown.unit_symbol = (IF units = "imperial" THEN "F" ELSE "C")
          /\ shown.wind_unit = (IF units = "imperial" THEN "mph" ELSE "m/s")

\* the current weather came from the cache, and the forecast was requested
C4_Witness ==
    /\ outcome = "ok" /\ units = "imperial"
    /\ floc = UnsetRec /\ Ops(calls) = {"forecast"}
    /\ data.units = "imperial" /\ shown.unit_symbol = "F"
    /\ forecast.units = "imperial"

\* C5: choose_units_for_country gives imperial for US, LR and MM in any
\* letter case and metric for every other code, None and the empty one
\* included.
C5_UnitsByCountry ==
    ccUnits # Unset
        => IF IsImperialCode(cc) THEN ccUnits = "imperial" ELSE ccUnits = "metric"

C5_Witness == cc = <<"m", "M">> /\ ccUnits = "imperial"

\* C6: with an explicit unit choice the units of the rerun are that choice,
\* whatever the geocoded country; the country decides only under "auto".
C6_OverrideWins ==
    units # Unset
        => /\ unit_pref = "Celsius (C)" => units = "metric"
           /\ unit_pref = "Fahrenheit (F)" => units = "imperial"
           /\ unit_pref = "auto (by location)" =>
                units = (IF "country" \in DOMAIN loc /\ IsImperialCode(loc.country)
                         THEN "imperial" ELSE "metric")

C6_Witness ==
    /\ unit_pref = "Celsius (C)" /\ loc = CandUS /\ units = "metric"
    /\ outcome = "ok" /\ data.units = "metric"

\* the name C7 expects for a candidate
LocalizedOrDefault(l, lg) ==
    IF /\ "local_names" \in DOMAIN l
       /\ lg \in DOMAIN l.local_names
       /\ l.local_names[lg] # ""
    THEN l.local_names[lg]
    ELSE l.name

\* C7: when the geocoding of fetch_current_weather returns a candidate, the
\* snapshot it returns is named by the candidate's localized name for the
\* language when that entry exists and is not empty, and by the candidate's
\* default name otherwise; never by the weather response.
C7_DisplayName ==
    (HasCoords(floc) /\ data # UnsetRec)
        => /\ data.name = LocalizedOrDefault(floc, lang)
           /\ shown.name = LocalizedOrDefault(floc, lang)
           /\ data.name \in {floc.name} \cup
                 (IF "local_names" \in DOMAIN floc
                  THEN {floc.local_names[k] : k \in DOMAIN floc.local_names}
                  ELSE {})

C7_Witness ==
    /\ floc = CandKR /\ lang = "en" /\ CandKR.local_names["en"] = ""
    /\ data # UnsetRec /\ data.name = "Seoul" /\ shown.name = "Seoul"

\* C8, as claimed: OpenWeatherClient with a None or empty api_key always
\* raises, before any request, and makes no client.
C8_EmptyKeyAlwaysFails ==
    ((client # None \/ ctorError) /\ ~TruthyStr(ctorArg))
        => ctorError /\ client = None /\ sent = <<>>

\* C8, amended: with a None or empty api_key, OpenWeatherClient raises,
\* before any request and making no client, exactly when OPENWEATHER_API_KEY
\* is unset or empty in the environment too; when it is set, the client is
\* made with the environment's key.  A client that was not made sends nothing.
C8_EmptyKeyFailsWithoutEnv ==
    /\ ((client # None \/ ctorError) /\ ~TruthyStr(ctorArg))
          => IF TruthyStr(environ)
             THEN ~ctorError /\ client # None /\ client.api_key = environ
             ELSE ctorError /\ client = None /\ sent = <<>>
    /\ ctorError => client = None /\ sent = <<>>
    /\ client # None => \A i \in 1..Len(sent) : sent[i].appid # ""
                                              /\ sent[i].appid # NoKey

C8_Witness ==
    ctorError /\ ctorArg = "" /\ environ = NoKey /\ client = None /\ sent = <<>>

\* the provider call that failed in the last rerun
Failed == calls[Len(calls)]

C10_OneGeocodingResult ==
    outcome = "ok"
        => /\ data.coord = forecast.city.coord
           /\ "country" \in DOMAIN loc => shown.country = loc.country

=============================================================================
